---- MODULE Spec2Model ----
(***************************************************************************)
(* A model of the IoC container of roson9527/container: the registry       *)
(* Container (map[reflect.Type]map[string]*binding), binding.make, bind,   *)
(* invoke, arguments, getBinding, resolve, Call, Fill, Reset and toNames.  *)
(* Strings are sequences of one-character strings, so that toNames and the *)
(* tag parsing of Fill split and trim as the Go code does.                 *)
(***************************************************************************)
EXTENDS Integers, Sequences, FiniteSets, TLC

VARIABLES c, calls, next, last, world, procs

vars == <<c, calls, next, last, world, procs>>

\* ------------------------------------------------------------------ bounds
\* Instances a run may allocate (resolver executions that return a value).
MaxInst == 2
\* Bindings a run may store.
MaxBindings == 2
\* Nesting of make -> invoke -> arguments -> make before the Go stack is
\* taken to be exhausted.
MaxDepth == 4
\* the longest name, in characters, that is handed to toNames alone
MaxLen == 8
\* the goroutines that call binding.make of one binding at the same time
MaxProcs == 2

\* ------------------------------------------------------------- strings
TYPE == <<"t", "y", "p", "e">>
NAME == <<"n", "a", "m", "e">>
Space == {" ", "\t", "\n", "\r"}

\* strings.TrimSpace
RECURSIVE TrimLeft(_)
TrimLeft(s) ==
    IF Len(s) > 0 /\ s[1] \in Space THEN TrimLeft(Tail(s)) ELSE s

RECURSIVE TrimRight(_)
TrimRight(s) ==
    IF Len(s) > 0 /\ s[Len(s)] \in Space
    THEN TrimRight(SubSeq(s, 1, Len(s) - 1)) ELSE s

TrimSpace(s) == TrimRight(TrimLeft(s))

\* strings.Split(s, ","): always at least one segment, empty ones kept
RECURSIVE SplitFrom(_, _, _, _)
SplitFrom(s, i, cur, acc) ==
    IF i > Len(s) THEN Append(acc, cur)
    ELSE IF s[i] = "," THEN SplitFrom(s, i + 1, <<>>, Append(acc, cur))
    ELSE SplitFrom(s, i + 1, Append(cur, s[i]), acc)

Split(s) == SplitFrom(s, 1, <<>>, <<>>)

\* a loop that does not skip the segments that are empty once trimmed
RECURSIVE toNamesLoopKeepEmpty(_, _, _)
toNamesLoopKeepEmpty(tmp, i, out) ==
    IF i > Len(tmp) THEN out
    ELSE LET t == TrimSpace(tmp[i])
         IN IF t = TYPE
            THEN toNamesLoopKeepEmpty(tmp, i + 1, Append(out, <<>>))
            ELSE toNamesLoopKeepEmpty(tmp, i + 1, Append(out, t))

\* the loop of toNames over the segments
RECURSIVE toNamesLoop(_, _, _)
toNamesLoop(tmp, i, out) ==
    IF i > Len(tmp) THEN out
    ELSE LET t == TrimSpace(tmp[i])
         IN IF Len(t) = 0 THEN toNamesLoop(tmp, i + 1, out)
            ELSE IF t = TYPE THEN toNamesLoop(tmp, i + 1, Append(out, <<>>))
            ELSE toNamesLoop(tmp, i + 1, Append(out, t))

\* a toNames that asks for the name as it was given
toNamesVerbatim(src) ==
    IF Len(src) = 0 THEN << <<>> >>
    ELSE << src >>

toNames(src) ==
    IF Len(src) = 0 THEN << <<>> >>
    ELSE toNamesLoop(Split(TrimSpace(src)), 1, <<>>)

\* ------------------------------------------------------------ BindType
singletonType == "singleton"
delaySingletonType == "delaySingleton"
transientType == "transient"

\* -------------------------------------------------- values of the model
\* the nil interface value (a binding's concrete before it is made)
Nil == [id |-> 0, by |-> "nil", args |-> <<>>]

\* a nil error
NoErr == [kind |-> "nil", t |-> "", names |-> <<>>]

Err(kind, t, names) == [kind |-> kind, t |-> t, names |-> names]

NoPanic == "none"

\* what the resolver functions handed to the container do when called:
\* val = the first output is a non-nil value, err = the trailing error
\* output is non-nil
Ok == [val |-> TRUE, err |-> FALSE]
NilErr == [val |-> FALSE, err |-> TRUE]
ValErr == [val |-> TRUE, err |-> TRUE]
NilOk == [val |-> FALSE, err |-> FALSE]

\* The resolvers callers register. kind: a Go func or another value;
\* outs: the declared output types (reflect NumOut/Out); ins: the declared
\* parameter types (NumIn/In); script: the outcome of its k-th execution
\* (the last entry repeats), a closure being free to answer differently
\* from call to call.
Resolvers ==
    [ f1      |-> [kind |-> "func", outs |-> <<"A">>, ins |-> <<>>,
                   script |-> <<Ok>>],
      f2      |-> [kind |-> "func", outs |-> <<"B">>, ins |-> <<"A">>,
                   script |-> <<Ok>>],
      fErr    |-> [kind |-> "func", outs |-> <<"A", "error">>, ins |-> <<>>,
                   script |-> <<NilErr, ValErr, Ok>>],
      fNil    |-> [kind |-> "func", outs |-> <<"A">>, ins |-> <<>>,
                   script |-> <<NilOk, Ok>>],
      fAB     |-> [kind |-> "func", outs |-> <<"A">>, ins |-> <<"B">>,
                   script |-> <<Ok>>],
      fNone   |-> [kind |-> "func", outs |-> <<>>, ins |-> <<>>,
                   script |-> <<NilOk>>],
      fThree  |-> [kind |-> "func", outs |-> <<"A", "B", "error">>,
                   ins |-> <<>>, script |-> <<Ok>>],
      notFunc |-> [kind |-> "int", outs |-> <<>>, ins |-> <<>>,
                   script |-> <<NilOk>>] ]

ResolverIds == DOMAIN Resolvers

\* the qualifiers callers register under and ask for
RegNames == { <<>>, <<"a">> }
ResolveNames == { <<>>, <<"a">> }

\* names that registration stores verbatim and resolution expands
OddNames == { <<>>, <<"a">>, TYPE, <<" ", "a">>, <<"a", ",", "b">> }

\* One program that uses a container: the resolver functions it hands to
\* it, the names it registers under and asks for, the receiver functions
\* it passes to Call and the structures it passes to Fill.
Program(resolvers, names, resolveNames, receivers, structs) ==
    [resolvers |-> resolvers, names |-> names, resolveNames |-> resolveNames,
     receivers |-> receivers, structs |-> structs]

Plain(resolvers) ==
    Program(resolvers, RegNames, ResolveNames, {"gB", "gA", "gInt"},
            {"sAB", "sBnA", "sInt"})

Worlds ==
    { Program({"f1", "f2"}, RegNames,
              ResolveNames \cup {<<"a", ",">> \o TYPE},
              {"gB", "gA", "gInt", "gBA"}, {"sAB", "sBnA", "sInt"}),
      Plain({"f1", "fErr"}), Plain({"f2", "fErr"}),
      Plain({"f2", "fNil"}), Plain({"fNone", "fThree", "notFunc"}),
      Program({"f1"}, RegNames, {<<"a", ",">> \o TYPE, TYPE \o <<",", "a">>},
              {}, {"sOrd"}),
      Program({"f2", "fAB"}, {<<>>}, {<<>>}, {"gB"}, {"sAB"}),
      Program({"f1"}, OddNames, OddNames, {}, {}) }

\* the machine a handler runs on: the registry, the resolvers' execution
\* counts, the next fresh instance identity and the log of the resolver
\* executions of the running handler
Machine(cc, cl, nx, lg) == [c |-> cc, calls |-> cl, next |-> nx, log |-> lg]

\* what a call returns: the machine after it, the value, the error, and
\* the panic that unwound it (NoPanic when it returned)
Res(m, val, err, panic) == [m |-> m, val |-> val, err |-> err, panic |-> panic]

MapPut(f, k, v) == [x \in DOMAIN f \cup {k} |-> IF x = k THEN v ELSE f[x]]

Min(a, b) == IF a < b THEN a ELSE b

\* ---------------------------------------------------------- getBinding
\* a lookup that keeps the last of the names that is registered
RECURSIVE lastName(_, _, _)
lastName(src, names, i) ==
    IF i > Len(names) THEN [exist |-> FALSE, key |-> <<>>]
    ELSE IF lastName(src, names, i + 1).exist
    THEN lastName(src, names, i + 1)
    ELSE IF names[i] \in DOMAIN src THEN [exist |-> TRUE, key |-> names[i]]
    ELSE [exist |-> FALSE, key |-> <<>>]

RECURSIVE firstName(_, _, _)
firstName(src, names, i) ==
    IF i > Len(names) THEN [exist |-> FALSE, key |-> <<>>]
    ELSE IF names[i] \in DOMAIN src THEN [exist |-> TRUE, key |-> names[i]]
    ELSE firstName(src, names, i + 1)

getBinding(cc, t, names) ==
    IF t \notin DOMAIN cc
    THEN [panic |-> TRUE, exist |-> FALSE, key |-> <<>>]
    ELSE LET f == firstName(cc[t], names, 1)
         IN [panic |-> FALSE, exist |-> f.exist, key |-> f.key]

\* --------------------------------------------- reflect.Value.Call
\* the resolver function r runs for the k-th time on args and answers
\* with the k-th outcome of its script
callResolverRun(m, r, args, via, script, o) ==
    Res([m EXCEPT !.calls[r] = Min(@ + 1, Len(script) - 1),
                  !.next = IF o.val THEN @ + 1 ELSE @,
                  !.log = Append(@, [r |-> r, via |-> via, err |-> o.err,
                                     val |-> IF o.val THEN m.next ELSE 0])],
        IF o.val THEN [id |-> m.next, by |-> r, args |-> args] ELSE Nil,
        IF o.err THEN Err("resolver", r, <<>>) ELSE NoErr,
        NoPanic)

\* Executes resolver r on the resolved arguments: a zero Value among the
\* arguments (a nil concrete) panics before the function runs.
callResolver(m, r, args, via) ==
    IF \E i \in 1..Len(args) : args[i] = Nil
    THEN Res(m, Nil, NoErr, "reflect: Call using zero Value argument")
    ELSE callResolverRun(m, r, args, via, Resolvers[r].script,
                         Resolvers[r].script[m.calls[r] + 1])

\* ------------------------------------- invoke, arguments, binding.make
RECURSIVE invoke(_, _, _, _, _)
RECURSIVE arguments(_, _, _, _, _, _)
RECURSIVE make(_, _, _, _, _)

\* invoke, after the call: v is what the function returned, n its NumOut
invokeValues(v, r, n) ==
    IF v.panic # NoPanic THEN v
    ELSE IF n = 1 \/ n = 2
    THEN IF n = 2 /\ v.err # NoErr
         THEN Res(v.m, v.val, v.err, NoPanic)
         ELSE Res(v.m, v.val, NoErr, NoPanic)
    ELSE Res(v.m, Nil, Err("signature", r, <<>>), NoPanic)

\* invoke, after arguments returned a
invokeCall(a, r, via) ==
    IF a.panic # NoPanic THEN Res(a.m, Nil, NoErr, a.panic)
    ELSE IF a.err # NoErr THEN Res(a.m, Nil, a.err, NoPanic)
    ELSE invokeValues(callResolver(a.m, r, a.val, via), r,
                      Len(Resolvers[r].outs))

\* arguments, after make returned r for parameter i
argumentsMade(r, ins, i, acc, name, d) ==
    IF r.panic # NoPanic THEN Res(r.m, <<>>, NoErr, r.panic)
    ELSE IF r.err # NoErr THEN Res(r.m, <<>>, r.err, NoPanic)
    ELSE arguments(r.m, ins, i + 1, Append(acc, r.val), name, d)

\* arguments, after getBinding returned g for parameter i
argumentsFound(g, m, ins, i, acc, name, d) ==
    IF g.panic THEN Res(m, <<>>, NoErr, "container: no binding found")
    ELSE IF g.exist
    THEN argumentsMade(make(m, ins[i], g.key, name, d), ins, i, acc, name, d)
    ELSE Res(m, <<>>, Err("no binding found", ins[i], <<>>), NoPanic)

\* a make that stores what invoke returned whatever the binding's lifecycle
makeInvokedCachesAll(v, t, key, bindType) ==
    IF v.panic # NoPanic THEN v
    ELSE Res([v.m EXCEPT !.c[t][key].concrete = v.val],
             IF v.err # NoErr THEN Nil ELSE v.val, v.err, NoPanic)

\* make, after invoke returned v for the binding at c[t][key]
makeInvoked(v, t, key, bindType) ==
    IF bindType = delaySingletonType
    THEN IF v.panic # NoPanic THEN v
         ELSE Res([v.m EXCEPT !.c[t][key].concrete = v.val],
                  IF v.err # NoErr THEN Nil ELSE v.val, v.err, NoPanic)
    ELSE v

\* arguments that looks every parameter up under the default qualifier
argumentsDefaultName(m, ins, i, acc, name, d) ==
    IF i > Len(ins) THEN Res(m, acc, NoErr, NoPanic)
    ELSE argumentsFound(getBinding(m.c, ins[i], toNames(<<>>)),
                        m, ins, i, acc, name, d)

\* arguments with its loop ending one parameter early: the last argument
\* stays the zero Value
argumentsOffByOne(m, ins, i, acc, name, d) ==
    IF i > Len(ins) - 1
    THEN Res(m, acc \o [j \in 1..(Len(ins) - Len(acc)) |-> Nil], NoErr,
             NoPanic)
    ELSE argumentsFound(getBinding(m.c, ins[i], toNames(name)),
                        m, ins, i, acc, name, d)

\* invoke(function, opt): via names the binding (or bind) it runs for
invoke(m, r, name, via, d) ==
    invokeCall(arguments(m, Resolvers[r].ins, 1, <<>>, name, d), r, via)

\* arguments(function, opt): val is the list of resolved arguments, acc
\* the arguments of the parameters before i
arguments(m, ins, i, acc, name, d) ==
    IF i > Len(ins) THEN Res(m, acc, NoErr, NoPanic)
    ELSE argumentsFound(getBinding(m.c, ins[i], toNames(name)),
                        m, ins, i, acc, name, d)

\* a make that gives up with an error once a resolution is nested deeper
\* than the bindings of the program can make it without a cycle
makeDetectsCycle(m, t, key, name, d) ==
    IF m.c[t][key].concrete # Nil
    THEN Res(m, m.c[t][key].concrete, NoErr, NoPanic)
    ELSE IF d >= 2 THEN Res(m, Nil, Err("circular dependency", t, <<>>),
                            NoPanic)
    ELSE makeInvoked(invoke(m, m.c[t][key].resolver, name,
                            [kind |-> "make", t |-> t, key |-> key], d + 1),
                     t, key, m.c[t][key].bindType)

\* (b *binding).make(c, opt) for the binding at c[t][key]
make(m, t, key, name, d) ==
    IF m.c[t][key].concrete # Nil
    THEN Res(m, m.c[t][key].concrete, NoErr, NoPanic)
    ELSE IF d >= MaxDepth THEN Res(m, Nil, NoErr, "stack overflow")
    ELSE makeInvoked(invoke(m, m.c[t][key].resolver, name,
                            [kind |-> "make", t |-> t, key |-> key], d + 1),
                     t, key, m.c[t][key].bindType)

\* ---------------------------------------------------------------- bind
\* bind, after the eager invocation (or none) returned v
bindStore(v, r, t, bindType, name, numOut) ==
    IF v.panic # NoPanic \/ v.err # NoErr THEN v
    ELSE IF numOut = 0
    THEN Res(v.m, Nil, NoErr, "runtime error: index out of range")
    ELSE IF name \in DOMAIN v.m.c[t]
    THEN Res(v.m, Nil, Err("already exists", t, <<name>>), NoPanic)
    ELSE Res([v.m EXCEPT !.c[t] =
                 MapPut(@, name, [resolver |-> r, concrete |-> v.val,
                                  bindType |-> bindType])],
             Nil, NoErr, NoPanic)

\* bind, from the creation of the TypeKey's entry on: m1 is the machine
\* with the entry
bindInvoke(m1, r, t, bindType, name, numOut) ==
    IF bindType = singletonType
    THEN bindStore(invoke(m1, r, name,
                          [kind |-> "bind", t |-> "", key |-> <<>>], 0),
                   r, t, bindType, name, numOut)
    ELSE bindStore(Res(m1, Nil, NoErr, NoPanic), r, t, bindType, name, numOut)

bind(m, r, bindType, name) ==
    IF Resolvers[r].kind # "func"
    THEN Res(m, Nil, Err("not a function", r, <<>>), NoPanic)
    ELSE IF Len(Resolvers[r].outs) = 0
    THEN bindInvoke(m, r, "", bindType, name, 0)
    ELSE IF Resolvers[r].outs[1] \notin DOMAIN m.c
    THEN bindInvoke([m EXCEPT !.c = MapPut(@, Resolvers[r].outs[1], <<>>)],
                    r, Resolvers[r].outs[1], bindType, name,
                    Len(Resolvers[r].outs))
    ELSE bindInvoke(m, r, Resolvers[r].outs[1], bindType, name,
                    Len(Resolvers[r].outs))

singleton(m, r, name, delay) ==
    IF delay THEN bind(m, r, delaySingletonType, name)
    ELSE bind(m, r, singletonType, name)

transient(m, r, name) == bind(m, r, transientType, name)

\* ------------------------------------------------------------- resolve
\* what callers pass to Resolve: a pointer to a slot of an abstraction,
\* a value that is no pointer, or an untyped nil
Targets ==
    [ pA   |-> [kind |-> "ptr", elem |-> "A"],
      pB   |-> [kind |-> "ptr", elem |-> "B"],
      val  |-> [kind |-> "struct", elem |-> ""],
      null |-> [kind |-> "nil", elem |-> ""] ]

\* resolve, after make returned v: the instance is set through the pointer
resolveSet(v) ==
    IF v.panic # NoPanic THEN Res(v.m, Nil, NoErr, v.panic)
    ELSE IF v.err = NoErr
    THEN IF v.val = Nil
         THEN Res(v.m, Nil, NoErr, "reflect: call of Set on zero Value")
         ELSE Res(v.m, v.val, NoErr, NoPanic)
    ELSE Res(v.m, Nil, v.err, NoPanic)

\* resolve, after getBinding returned g for the slot's type elem
resolveFound(g, m, elem, name) ==
    IF g.panic THEN Res(m, Nil, NoErr, "container: no binding found")
    ELSE IF g.exist THEN resolveSet(make(m, elem, g.key, name, 0))
    ELSE Res(m, Nil, Err("no concrete found", elem, <<>>), NoPanic)

resolve(m, target, name) ==
    IF Targets[target].kind = "nil"
    THEN Res(m, Nil, Err("invalid abstraction", "", <<>>), NoPanic)
    ELSE IF Targets[target].kind = "ptr"
    THEN resolveFound(getBinding(m.c, Targets[target].elem, toNames(name)),
                      m, Targets[target].elem, name)
    ELSE Res(m, Nil, Err("invalid abstraction", "", <<>>), NoPanic)

\* ---------------------------------------------------------------- Call
\* the receiver functions callers pass to Call: ins are the parameter
\* types, result is what the function returns
Receivers ==
    [ gB   |-> [kind |-> "func", ins |-> <<"B">>, result |-> "none"],
      gA   |-> [kind |-> "func", ins |-> <<"A">>, result |-> "error"],
      gInt |-> [kind |-> "int", ins |-> <<>>, result |-> "none"],
      gBA  |-> [kind |-> "func", ins |-> <<"B", "A">>, result |-> "none"] ]

\* Call, after arguments returned a: val is the argument list the
\* function was called with
callResult(a, fn, result) ==
    IF a.panic # NoPanic \/ a.err # NoErr THEN a
    ELSE IF \E i \in 1..Len(a.val) : a.val[i] = Nil
    THEN Res(a.m, <<>>, NoErr, "reflect: Call using zero Value argument")
    ELSE IF result = "none" THEN Res(a.m, a.val, NoErr, NoPanic)
    ELSE IF result = "nil error" THEN Res(a.m, a.val, NoErr, NoPanic)
    ELSE IF result = "error"
    THEN Res(a.m, a.val, Err("receiver", fn, <<>>), NoPanic)
    ELSE Res(a.m, a.val, Err("receiver signature", fn, <<>>), NoPanic)

callReceiver(m, fn) ==
    IF Receivers[fn].kind # "func"
    THEN Res(m, <<>>, Err("invalid function", fn, <<>>), NoPanic)
    ELSE callResult(arguments(m, Receivers[fn].ins, 1, <<>>, <<>>, 0), fn,
                    Receivers[fn].result)

\* ---------------------------------------------------------------- Fill
\* the structures callers pass to Fill: each field has a name, a type and
\* (tagged) the value of its container tag
Structs ==
    [ sAB  |-> [kind |-> "ptr to struct",
                fields |-> << [name |-> <<"X">>, type |-> "A",
                               tagged |-> TRUE, tag |-> TYPE],
                              [name |-> <<"Y">>, type |-> "B",
                               tagged |-> TRUE, tag |-> TYPE] >>],
      sBnA |-> [kind |-> "ptr to struct",
                fields |-> << [name |-> <<"a">>, type |-> "B",
                               tagged |-> TRUE, tag |-> NAME],
                              [name |-> <<"Z">>, type |-> "A",
                               tagged |-> FALSE, tag |-> <<>>],
                              [name |-> <<"W">>, type |-> "A",
                               tagged |-> TRUE, tag |-> <<"a", ",">> \o TYPE]
                           >>],
      sInt |-> [kind |-> "int", fields |-> <<>>],
      sOrd |-> [kind |-> "ptr to struct",
                fields |-> << [name |-> <<"P">>, type |-> "A",
                               tagged |-> TRUE, tag |-> <<"a", ",">> \o TYPE],
                              [name |-> <<"Q">>, type |-> "A",
                               tagged |-> TRUE, tag |-> TYPE \o <<",", "a">>]
                           >>] ]

\* the candidate names of a field from its tag
RECURSIVE tagNames(_, _, _, _)
tagNames(subTs, i, fieldName, names) ==
    IF i > Len(subTs) THEN names
    ELSE IF subTs[i] = TYPE
    THEN tagNames(subTs, i + 1, fieldName, Append(names, <<>>))
    ELSE IF subTs[i] = NAME
    THEN tagNames(subTs, i + 1, fieldName, Append(names, fieldName))
    ELSE tagNames(subTs, i + 1, fieldName, Append(names, subTs[i]))

\* the loop of Fill over the fields; val is the structure's fields so far
RECURSIVE fillLoop(_, _, _, _)

\* Fill, after make returned v for field i: its error is dropped
fillSet(v, fields, i, filled) ==
    IF v.panic # NoPanic THEN Res(v.m, filled, NoErr, v.panic)
    ELSE IF v.val = Nil
    THEN Res(v.m, filled, NoErr, "reflect: call of Set on zero Value")
    ELSE fillLoop(v.m, fields, i + 1, [filled EXCEPT ![i] = v.val])

\* Fill, after getBinding returned g for field i and its names
fillFound(g, names, m, fields, i, filled) ==
    IF g.panic THEN Res(m, filled, NoErr, "container: no binding found")
    ELSE IF g.exist
    THEN fillSet(make(m, fields[i].type, g.key, <<>>, 0), fields, i, filled)
    ELSE Res(m, filled, Err("cannot make", fields[i].name, names), NoPanic)

fillNames(names, m, fields, i, filled) ==
    fillFound(getBinding(m.c, fields[i].type, names), names, m, fields, i,
              filled)

fillLoop(m, fields, i, filled) ==
    IF i > Len(fields) THEN Res(m, filled, NoErr, NoPanic)
    ELSE IF ~fields[i].tagged THEN fillLoop(m, fields, i + 1, filled)
    ELSE fillNames(tagNames(Split(fields[i].tag), 1, fields[i].name, <<>>),
                   m, fields, i, filled)

Fill_(m, structure) ==
    IF Structs[structure].kind = "ptr to struct"
    THEN fillLoop(m, Structs[structure].fields, 1,
                  [i \in 1..Len(Structs[structure].fields) |-> Nil])
    ELSE Res(m, <<>>, Err("invalid structure", structure, <<>>), NoPanic)

\* --------------------------------------------------------------- state
\* c: the Container; calls: how often each resolver function has run (up
\* to the length of its script); next: the identity of the next instance
\* a resolver allocates; last: the latest call on the container and what
\* it returned; world: the program that uses the container; procs: the
\* goroutines that are inside binding.make at the same time (none while
\* the program calls the container from one goroutine)
NoBindings == <<>>

CountBindings(cc) ==
    LET RECURSIVE sum(_)
        sum(S) == IF S = {} THEN 0
                  ELSE LET t == CHOOSE x \in S : TRUE
                       IN Cardinality(DOMAIN cc[t]) + sum(S \ {t})
    IN sum(DOMAIN cc)

Init ==
    /\ c = NoBindings
    /\ calls = [r \in ResolverIds |-> 0]
    /\ next = 1
    /\ last = [op |-> "New", arg |-> "", name |-> <<>>, bindType |-> "",
               err |-> NoErr, panic |-> NoPanic, out |-> Nil,
               vals |-> <<>>, log |-> <<>>]
    /\ world \in Worlds
    /\ procs = <<>>

Running == last.panic = NoPanic

\* the step of a handler that returned (or panicked with) res
Step(op, arg, name, bindType, res) ==
    /\ Running
    /\ UNCHANGED <<world, procs>>
    /\ res.m.next <= MaxInst + 1
    /\ CountBindings(res.m.c) <= MaxBindings
    /\ c' = res.m.c
    /\ calls' = res.m.calls
    /\ next' = res.m.next
    /\ last' = [op |-> op, arg |-> arg, name |-> name, bindType |-> bindType,
                err |-> res.err, panic |-> res.panic,
                out |-> IF op \in {"Resolve", "NamedResolve"} THEN res.val
                        ELSE Nil,
                vals |-> IF op \in {"Call", "Fill"} THEN res.val ELSE <<>>,
                log |-> res.m.log]

Now == Machine(c, calls, next, <<>>)

Singleton ==
    \E r \in world.resolvers, delay \in BOOLEAN :
        Step("Singleton", r, <<>>,
             IF delay THEN delaySingletonType ELSE singletonType,
             singleton(Now, r, <<>>, delay))

NamedSingleton ==
    \E r \in world.resolvers, name \in world.names \ {<<>>},
       delay \in BOOLEAN :
        Step("NamedSingleton", r, name,
             IF delay THEN delaySingletonType ELSE singletonType,
             singleton(Now, r, name, delay))

Transient ==
    \E r \in world.resolvers :
        Step("Transient", r, <<>>, transientType, transient(Now, r, <<>>))

NamedTransient ==
    \E r \in world.resolvers, name \in world.names \ {<<>>} :
        Step("NamedTransient", r, name, transientType,
             transient(Now, r, name))

Call ==
    \E fn \in world.receivers :
        Step("Call", fn, <<>>, "", callReceiver(Now, fn))

Resolve ==
    \E target \in DOMAIN Targets :
        Step("Resolve", target, <<>>, "", resolve(Now, target, <<>>))

NamedResolve ==
    \E target \in DOMAIN Targets, name \in world.resolveNames \ {<<>>} :
        Step("NamedResolve", target, name, "", resolve(Now, target, name))

Fill ==
    \E structure \in world.structs :
        Step("Fill", structure, <<>>, "", Fill_(Now, structure))

\* a Reset whose loop stops after the first key it deleted
ResetFirstKey ==
    /\ Running
    /\ c' = IF c = NoBindings THEN c
            ELSE [t \in DOMAIN c \ {CHOOSE t \in DOMAIN c : TRUE} |-> c[t]]
    /\ last' = [op |-> "Reset", arg |-> "", name |-> <<>>, bindType |-> "",
                err |-> NoErr, panic |-> NoPanic, out |-> Nil,
                vals |-> <<>>, log |-> <<>>]
    /\ UNCHANGED <<calls, next, world, procs>>

Reset ==
    /\ Running
    /\ c' = NoBindings
    /\ last' = [op |-> "Reset", arg |-> "", name |-> <<>>, bindType |-> "",
                err |-> NoErr, panic |-> NoPanic, out |-> Nil,
                vals |-> <<>>, log |-> <<>>]
    /\ UNCHANGED <<calls, next, world, procs>>

Next ==
    \/ Singleton
    \/ NamedSingleton
    \/ Transient
    \/ NamedTransient
    \/ Call
    \/ Resolve
    \/ NamedResolve
    \/ Fill
    \/ Reset

Spec == Init /\ [][Next]_vars

\* ------------------------------------------------- reading the last call
IsRegister ==
    last.op \in {"Singleton", "NamedSingleton", "Transient", "NamedTransient"}

IsResolve == last.op \in {"Resolve", "NamedResolve"}

Returned == last.panic = NoPanic

Succeeded == last.panic = NoPanic /\ last.err = NoErr

\* the binding a Resolve of the last call's target and name looks up
ResolvedElem == Targets[last.arg].elem

ResolvedLookup == getBinding(c, ResolvedElem, toNames(last.name))

ResolveFound ==
    /\ IsResolve
    /\ Targets[last.arg].kind = "ptr"
    /\ ~ResolvedLookup.panic
    /\ ResolvedLookup.exist

ResolvedBinding == c[ResolvedElem][ResolvedLookup.key]

\* a resolver of the right shape that returns a value and no error each time
WellBehaved(r) ==
    /\ Resolvers[r].kind = "func"
    /\ Len(Resolvers[r].outs) \in {1, 2}
    /\ \A i \in 1..Len(Resolvers[r].script) : Resolvers[r].script[i] = Ok

\* t has a binding under the default qualifier
DefaultBound(cc, t) == t \in DOMAIN cc /\ <<>> \in DOMAIN cc[t]

\* ---------------------------------------------------------------- C1
\* C1: without Reset, a Transient binding's cached instance is never
\* populated and every Resolve of it runs its resolver and yields a fresh
\* instance; two successful Resolves of the same Singleton or LazySingleton
\* binding return the identical instance; a cached instance, once set, is
\* never written again.
C1_TransientNeverCached ==
    \A t \in DOMAIN c : \A k \in DOMAIN c[t] :
        c[t][k].bindType = transientType => c[t][k].concrete = Nil

C1_TransientFresh ==
    (ResolveFound /\ Succeeded /\ ResolvedBinding.bindType = transientType)
        => /\ last.out.id = next - 1
           /\ \E i \in 1..Len(last.log) :
                  last.log[i].via = [kind |-> "make", t |-> ResolvedElem,
                                     key |-> ResolvedLookup.key]

C1_SameInstanceStep ==
    (/\ ResolveFound /\ Succeeded
     /\ ResolveFound' /\ Succeeded'
     /\ ResolvedElem' = ResolvedElem
     /\ ResolvedLookup'.key = ResolvedLookup.key
     /\ ResolvedBinding.bindType # transientType)
        => last'.out = last.out

C1_CachedWrittenOnce ==
    \A t \in DOMAIN c : \A k \in DOMAIN c[t] :
        (c[t][k].concrete # Nil /\ last'.op # "Reset")
            => c'[t][k].concrete = c[t][k].concrete

C1_Lifecycles ==
    [][/\ C1_TransientNeverCached'
       /\ C1_TransientFresh'
       /\ C1_SameInstanceStep
       /\ C1_CachedWrittenOnce]_vars

\* the parts of C1 that the code keeps
C1_Kept ==
    [][/\ C1_TransientNeverCached'
       /\ C1_TransientFresh'
       /\ C1_CachedWrittenOnce]_vars

\* ---------------------------------------------------------------- C2
\* C2: a Register for a (TypeKey, qualifier) that already holds a Binding
\* fails with DuplicateBinding, whatever the lifecycle, and leaves the
\* existing binding unchanged.
C2_DuplicateStep ==
    LET rr == Resolvers[last'.arg]
        t == rr.outs[1]
    IN (/\ IsRegister'
        /\ rr.kind = "func" /\ Len(rr.outs) > 0
        /\ t \in DOMAIN c /\ last'.name \in DOMAIN c[t])
           => /\ last'.panic = NoPanic
              /\ last'.err.kind = "already exists"
              /\ c'[t][last'.name] = c[t][last'.name]

C2_DuplicateRejected == [][C2_DuplicateStep]_vars

\* ---------------------------------------------------------------- C3
\* C3: Register never runs a LazySingleton binding's resolver; an eager
\* Singleton binding's resolver runs exactly once, inside Register, and no
\* later resolution runs it again.
C3_LazyNotRunByRegister ==
    (IsRegister /\ last.bindType = delaySingletonType) => last.log = <<>>

C3_EagerRunOnceInRegister ==
    (IsRegister /\ last.bindType = singletonType /\ Succeeded)
        => Cardinality({i \in 1..Len(last.log) :
                            last.log[i].via.kind = "bind"}) = 1

C3_EagerNeverRunAgain ==
    \A i \in 1..Len(last.log) :
        last.log[i].via.kind = "make"
            => c[last.log[i].via.t][last.log[i].via.key].bindType
                   # singletonType

C3_ResolverRuns ==
    /\ C3_LazyNotRunByRegister
    /\ C3_EagerRunOnceInRegister
    /\ C3_EagerNeverRunAgain

\* ---------------------------------------------------------------- C4
\* C4: Resolve of a TypeKey with no binding fails with BindingNotFound,
\* Resolve of a TypeKey with bindings but none under a requested candidate
\* fails with the different error QualifierNotMatched, and Resolve with a
\* registered qualifier of a well-behaved resolver succeeds.
C4_ResolveErrors ==
    (IsResolve /\ Targets[last.arg].kind = "ptr")
        => LET t == ResolvedElem
               none == t \notin DOMAIN c \/ DOMAIN c[t] = {}
           IN /\ none => /\ last.panic = NoPanic
                         /\ last.err # NoErr
                         /\ last.err.kind # "no concrete found"
              /\ (~none /\ ~ResolvedLookup.exist)
                     => /\ last.panic = NoPanic
                        /\ last.err.kind = "no concrete found"
              /\ (~none /\ ResolvedLookup.exist
                  /\ WellBehaved(ResolvedBinding.resolver)
                  /\ \A i \in 1..Len(Resolvers[ResolvedBinding.resolver].ins) :
                         Resolvers[ResolvedBinding.resolver].ins[i] \notin
                             {"A", "B"})
                     => Succeeded

\* ---------------------------------------------------------------- C5
\* C5: with well-behaved factories for A (no parameters) and for B (one
\* parameter of type A) registered under the default qualifier, one Call
\* of a function of B succeeds and the function receives a B that the
\* factory of B built from an A that the factory of A built.
C5_Chain ==
    /\ DefaultBound(c, "A") /\ WellBehaved(c["A"][<<>>].resolver)
    /\ Resolvers[c["A"][<<>>].resolver].ins = <<>>
    /\ DefaultBound(c, "B") /\ WellBehaved(c["B"][<<>>].resolver)
    /\ Resolvers[c["B"][<<>>].resolver].ins = <<"A">>

C5_TransitiveCall ==
    (last.op = "Call" /\ last.arg = "gB" /\ C5_Chain)
        => /\ Succeeded
           /\ Len(last.vals) = 1
           /\ last.vals[1] # Nil
           /\ last.vals[1].by = c["B"][<<>>].resolver
           /\ Len(last.vals[1].args) = 1
           /\ last.vals[1].args[1] # Nil
           /\ last.vals[1].args[1].by = c["A"][<<>>].resolver

\* one Call that ran both factories itself, the factory of A first
C5_Witness ==
    /\ last.op = "Call" /\ last.arg = "gB" /\ C5_Chain /\ Succeeded
    /\ Len(last.log) = 2
    /\ last.log[1].r = "f1" /\ last.log[2].r = "f2"
    /\ last.vals[1].args[1].id = next - 2
    /\ last.vals[1].id = next - 1

\* ---------------------------------------------------------------- C6
\* C6: Fill of a structure whose first annotated field is resolvable and
\* whose second has no binding assigns the first field and returns
\* FieldInjectionFailure naming the second; the second stays unassigned.
C6_FillPartial ==
    (/\ last.op = "Fill" /\ last.arg = "sAB"
     /\ DefaultBound(c, "A") /\ WellBehaved(c["A"][<<>>].resolver)
     /\ ~DefaultBound(c, "B"))
        => /\ last.panic = NoPanic
           /\ last.err.kind = "cannot make"
           /\ last.err.t = <<"Y">>
           /\ last.vals[1] # Nil
           /\ last.vals[2] = Nil

\* ---------------------------------------------------------------- C7
\* C7: no call on the container ever panics; each returns nil or an error.
C7_NoPanic == last.panic = NoPanic

\* ---------------------------------------------------------------- C8
\* C8: an eager Singleton registration whose resolver invocation fails
\* (the resolver returns an error, or a parameter is not resolvable)
\* returns that error and leaves the registry exactly as it was.
C8_FailedEagerStep ==
    (/\ last'.op \in {"Singleton", "NamedSingleton"}
     /\ last'.bindType = singletonType
     /\ \/ last'.err.kind \in {"resolver", "no binding found"}
        \/ last'.panic = "container: no binding found")
        => /\ last'.panic = NoPanic
           /\ c' = c

C8_FailedEagerStoresNothing == [][C8_FailedEagerStep]_vars

\* ---------------------------------------------------------------- C9
\* C9: when make of a LazySingleton binding fails, the binding's cached
\* instance stays unset and the failure is returned, and the next make of
\* that binding runs the resolver again.
C9_FailedLazy ==
    /\ ResolveFound
    /\ ResolvedBinding.bindType = delaySingletonType
    /\ last.panic = NoPanic
    /\ last.err # NoErr

C9_RetryStep ==
    /\ C9_FailedLazy' => ResolvedBinding'.concrete = Nil
    /\ (/\ C9_FailedLazy
        /\ ResolveFound'
        /\ ResolvedElem' = ResolvedElem
        /\ ResolvedLookup'.key = ResolvedLookup.key)
           => \E i \in 1..Len(last'.log) :
                  last'.log[i].via = [kind |-> "make", t |-> ResolvedElem,
                                      key |-> ResolvedLookup.key]

C9_LazyFailureRetryable == [][C9_RetryStep]_vars

\* ---------------------------------------------------------------- C10
\* C10: Register of a resolver that is no function, or whose outputs are
\* not one value with an optional trailing error, fails with
\* InvalidResolverShape and stores nothing, whatever the lifecycle; no
\* such resolver is ever the resolver of a Binding.
ValidShape(r) ==
    /\ Resolvers[r].kind = "func"
    /\ \/ Len(Resolvers[r].outs) = 1
       \/ Len(Resolvers[r].outs) = 2 /\ Resolvers[r].outs[2] = "error"

Bindings(cc) ==
    UNION {{<<t, k, cc[t][k]>> : k \in DOMAIN cc[t]} : t \in DOMAIN cc}

C10_OnlyValidStored ==
    \A t \in DOMAIN c : \A k \in DOMAIN c[t] : ValidShape(c[t][k].resolver)

C10_InvalidStep ==
    /\ C10_OnlyValidStored'
    /\ (IsRegister' /\ ~ValidShape(last'.arg))
           => /\ last'.panic = NoPanic
              /\ last'.err.kind \in {"not a function", "signature"}
              /\ Bindings(c') = Bindings(c)

C10_InvalidShapeRejected == [][C10_InvalidStep]_vars

\* ------------------------------------------------------------------ C11
\* the instances the registry cc holds in its bindings
Cached(cc) == { b[3].concrete : b \in Bindings(cc) } \ {Nil}

\* the (TypeKey, qualifier) pairs the registry cc has a binding for
Slots(cc) == { <<b[1], b[2]>> : b \in Bindings(cc) }

\* the machine after the step
After == Machine(c', calls', next', <<>>)

\* a container that never had a binding, at the same point of the program
Fresh == Machine(NoBindings, calls', next', <<>>)

\* C11: after Reset the registry has no TypeKey entries: every (TypeKey,
\* qualifier) that was registered before can be registered again without
\* DuplicateBinding, a Resolve of any type ends as it does on a container
\* that never had a binding, and no instance that was cached before the
\* Reset is returned.
C11_ResetStep ==
    last'.op = "Reset" =>
        /\ DOMAIN c' = {}
        /\ \A b \in Slots(c) : \A r \in world.resolvers :
              \A bindType \in {delaySingletonType, transientType} :
                 (ValidShape(r) /\ Resolvers[r].outs[1] = b[1])
                 => /\ bind(After, r, bindType, b[2]).err = NoErr
                    /\ b \in Slots(bind(After, r, bindType, b[2]).m.c)
        /\ \A target \in DOMAIN Targets, name \in world.resolveNames :
              /\ resolve(After, target, name).err
                    = resolve(Fresh, target, name).err
              /\ resolve(After, target, name).panic
                    = resolve(Fresh, target, name).panic
              /\ resolve(After, target, name).val \notin Cached(c)

C11_ResetClears == [][C11_ResetStep]_vars

\* a Reset of a container whose resolvers have run
C11_Witness ==
    /\ last.op = "Reset"
    /\ c = NoBindings
    /\ \E r \in world.resolvers : calls[r] > 0

\* ------------------------------------------------------------------ C12
\* the binding of t under the default qualifier and, to depth d, those of
\* its resolver's parameters exist and have well-behaved resolvers
RECURSIVE Sound(_, _, _)
Sound(cc, t, d) ==
    /\ d > 0
    /\ DefaultBound(cc, t)
    /\ WellBehaved(cc[t][<<>>].resolver)
    /\ \A i \in 1..Len(Resolvers[cc[t][<<>>].resolver].ins) :
          Sound(cc, Resolvers[cc[t][<<>>].resolver].ins[i], d - 1)

\* the types whose bindings the resolution of t makes
RECURSIVE Needs(_, _, _)
Needs(cc, t, d) ==
    IF d = 0 \/ ~DefaultBound(cc, t) THEN {t}
    ELSE {t} \cup UNION { Needs(cc, Resolvers[cc[t][<<>>].resolver].ins[i],
                                d - 1) :
                          i \in 1..Len(Resolvers[cc[t][<<>>].resolver].ins) }

\* Call stopped at parameter i of ins: the error names its type, the
\* function was not called and no later parameter was resolved
AbortedAt(ins, i) ==
    /\ Returned
    /\ last.err.kind = "no binding found"
    /\ last.err.t = ins[i]
    /\ last.vals = <<>>
    /\ \A e \in 1..Len(last.log) :
          /\ last.log[e].via.kind = "make"
          /\ last.log[e].via.t \in
                UNION { Needs(c, ins[j], MaxDepth) : j \in 1..(i - 1) }

\* C12: the invoker resolves the parameters in declared order; at the
\* first parameter that has no binding it stops with BindingNotFound or
\* QualifierNotMatched naming that parameter's type, resolves no later
\* parameter and does not execute the callable.
C12_AbortAtFirst ==
    (last.op = "Call" /\ Receivers[last.arg].kind = "func")
        => \A i \in 1..Len(Receivers[last.arg].ins) :
              (/\ ~DefaultBound(c, Receivers[last.arg].ins[i])
               /\ \A j \in 1..(i - 1) :
                     Sound(c, Receivers[last.arg].ins[j], MaxDepth))
              => AbortedAt(Receivers[last.arg].ins, i)

\* what the code keeps of C12: the same, when the parameter's TypeKey has
\* an entry under another qualifier
C12_Kept ==
    (last.op = "Call" /\ Receivers[last.arg].kind = "func")
        => \A i \in 1..Len(Receivers[last.arg].ins) :
              (/\ ~DefaultBound(c, Receivers[last.arg].ins[i])
               /\ Receivers[last.arg].ins[i] \in DOMAIN c
               /\ \A j \in 1..(i - 1) :
                     Sound(c, Receivers[last.arg].ins[j], MaxDepth))
              => AbortedAt(Receivers[last.arg].ins, i)

\* ------------------------------------------------------------------ C13
\* the instances of the resolver runs of the last call that returned an
\* error: what the failed makes produced
FailedVals ==
    { last.log[e].val : e \in { i \in 1..Len(last.log) : last.log[i].err } }

\* the instances the last call handed to its caller
RECURSIVE Parts(_)
Parts(v) ==
    IF v = Nil THEN {}
    ELSE {v.id} \cup UNION { Parts(v.args[i]) : i \in 1..Len(v.args) }

Handed ==
    Parts(last.out) \cup UNION { Parts(last.vals[i]) : i \in DOMAIN last.vals }

\* C13: whenever a make fails for a binding that an enclosing Call,
\* Resolve or Fill needs (the binding is found and its resolver returns an
\* error), the enclosing call stops at that point, returns the failure and
\* assigns nothing from the failed make.
C13_FailureReturned ==
    (/\ last.op \in {"Call", "Resolve", "NamedResolve", "Fill"}
     /\ \E e \in 1..Len(last.log) : last.log[e].err)
        => /\ Returned
           /\ last.err # NoErr
           /\ last.log[Len(last.log)].err
           /\ Handed \cap FailedVals = {}

\* what the code keeps of C13: Call and Resolve return the failure
C13_Kept ==
    (/\ last.op \in {"Call", "Resolve", "NamedResolve"}
     /\ \E e \in 1..Len(last.log) : last.log[e].err)
        => /\ Returned
           /\ last.err.kind = "resolver"
           /\ last.log[Len(last.log)].err
           /\ Handed = {}

\* ------------------------------------------------------------------ C14
\* the candidate lists a lookup is asked with
Candidates == { <<>>, <<"a">>, <<"b">> }
CandidateLists ==
    { <<>> } \cup { <<x>> : x \in Candidates }
             \cup { <<x, y>> : x, y \in Candidates }

\* the positions of names that are registered for t
Registered(cc, t, names) == { i \in 1..Len(names) : names[i] \in DOMAIN cc[t] }

\* the least element of a non-empty set of positions
Least(S) == CHOOSE i \in S : \A j \in S : i <= j

\* instance v comes from the binding of t under key: it is that binding's
\* cached instance, or the binding's resolver produced it in the last call
FromBinding(v, t, key) ==
    /\ key \in DOMAIN c[t]
    /\ \/ c[t][key].concrete = v
       \/ \E e \in 1..Len(last.log) :
             /\ last.log[e].val = v.id
             /\ last.log[e].via = [kind |-> "make", t |-> t, key |-> key]

\* C14 (lookup): on a TypeKey that has entries, a lookup with an ordered
\* candidate list returns the binding of the first candidate in list order
\* that is registered, and finds none only when no candidate is registered.
C14_Lookup ==
    \A t \in DOMAIN c : \A names \in CandidateLists :
        /\ ~getBinding(c, t, names).panic
        /\ getBinding(c, t, names).exist <=> Registered(c, t, names) # {}
        /\ getBinding(c, t, names).exist
             => getBinding(c, t, names).key
                  = names[Least(Registered(c, t, names))]

\* C14 (NamedResolve): the instance a successful NamedResolve returns comes
\* from the first registered candidate of its name, and the error for a
\* missing qualifier is returned only when no candidate is registered.
C14_Resolve ==
    (/\ last.op = "NamedResolve"
     /\ Targets[last.arg].kind = "ptr"
     /\ ResolvedElem \in DOMAIN c)
        => /\ last.err.kind = "no concrete found"
               <=> Registered(c, ResolvedElem, toNames(last.name)) = {}
           /\ Succeeded
               => FromBinding(last.out, ResolvedElem,
                      toNames(last.name)[Least(Registered(c, ResolvedElem,
                                                    toNames(last.name)))])

\* C14 (Fill): Fill takes a field's comma-separated candidates from left
\* to right by the same rule.
C14_Fill ==
    (last.op = "Fill" /\ last.arg = "sOrd" /\ Succeeded)
        => /\ FromBinding(last.vals[1], "A",
                  <<<<"a">>, <<>>>>[Least(Registered(c, "A",
                                                    <<<<"a">>, <<>>>>))])
           /\ FromBinding(last.vals[2], "A",
                  <<<<>>, <<"a">>>>[Least(Registered(c, "A",
                                                    <<<<>>, <<"a">>>>))])

\* C14: the three parts together
C14_FirstCandidate == C14_Lookup /\ C14_Resolve /\ C14_Fill

\* with "a" and the default both registered, the names "a,type" give the
\* binding of "a" and the names "type,a" the default binding, in one Fill
C14_Witness ==
    /\ last.op = "Fill" /\ last.arg = "sOrd" /\ Succeeded
    /\ DOMAIN c["A"] = { <<>>, <<"a">> }
    /\ FromBinding(last.vals[1], "A", <<"a">>)
    /\ FromBinding(last.vals[2], "A", <<>>)
    /\ last.vals[1] # last.vals[2]

\* ------------------------------------------------------------------ C15
\* toNames on its own: a caller builds a name piece by piece and hands it
\* to toNames; last.name is the name, last.vals what toNames returned.
Pieces == { <<"a">>, <<",">>, <<" ">>, TYPE }

NoProgram == Program({}, {}, {}, {}, {})

InitNames ==
    /\ c = NoBindings
    /\ calls = [r \in ResolverIds |-> 0]
    /\ next = 1
    /\ world = NoProgram
    /\ procs = <<>>
    /\ last = [op |-> "name", arg |-> "", name |-> <<>>, bindType |-> "",
               err |-> NoErr, panic |-> NoPanic, out |-> Nil,
               vals |-> <<>>, log |-> <<>>]

AppendPiece ==
    \E p \in Pieces :
        /\ Len(last.name) + Len(p) <= MaxLen
        /\ last' = [last EXCEPT !.op = "name", !.name = @ \o p,
                                !.vals = <<>>]
        /\ UNCHANGED <<c, calls, next, world, procs>>

ToNames ==
    /\ last.op = "name"
    /\ last' = [last EXCEPT !.op = "toNames", !.vals = toNames(last.name)]
    /\ UNCHANGED <<c, calls, next, world, procs>>

NextNames == AppendPiece \/ ToNames

SpecNames == InitNames /\ [][NextNames]_vars

\* the k-th element of a set of numbers, in increasing order
Nth(S, k) == CHOOSE x \in S : Cardinality({ y \in S : y < x }) = k - 1

\* the positions that bound the comma-separated segments of s
Cuts(s) == {0, Len(s) + 1} \cup { i \in 1..Len(s) : s[i] = "," }

\* the k-th comma-separated segment of s
Segment(s, k) == SubSeq(s, Nth(Cuts(s), k) + 1, Nth(Cuts(s), k + 1) - 1)

\* seg without its leading and trailing whitespace
Trimmed(seg) ==
    IF \A i \in 1..Len(seg) : seg[i] \in Space THEN <<>>
    ELSE SubSeq(seg,
                Nth({ i \in 1..Len(seg) : seg[i] \notin Space }, 1),
                Nth({ i \in 1..Len(seg) : seg[i] \notin Space },
                    Cardinality({ i \in 1..Len(seg) : seg[i] \notin Space })))

\* the segments of s that are not empty once trimmed
KeptSegments(s) ==
    { k \in 1..(Cardinality(Cuts(s)) - 1) : Trimmed(Segment(s, k)) # <<>> }

\* the candidate list the claim gives for a non-empty s
ExpectedNames(s) ==
    [ j \in 1..Cardinality(KeptSegments(s)) |->
        IF Trimmed(Segment(s, Nth(KeptSegments(s), j))) = TYPE THEN <<>>
        ELSE Trimmed(Segment(s, Nth(KeptSegments(s), j))) ]

\* C15: toNames of the empty name is the one default qualifier; of a
\* non-empty name it is the comma-separated segments, each trimmed, "type"
\* replaced by the empty qualifier, segments that are empty after trimming
\* dropped, all others verbatim, in their order (so a name of commas and
\* whitespace only gives the empty candidate list).
C15_Expansion ==
    last.op = "toNames"
        => /\ last.name = <<>> => last.vals = << <<>> >>
           /\ last.name # <<>> => last.vals = ExpectedNames(last.name)
           /\ (last.name # <<>>
                /\ \A i \in 1..Len(last.name) :
                      last.name[i] \in Space \cup {","})
               => last.vals = <<>>

\* " a,,type": a trimmed segment, a dropped one and a "type"
C15_Witness ==
    /\ last.op = "toNames"
    /\ last.name = <<" ", "a", ",", ",">> \o TYPE
    /\ last.vals = << <<"a">>, <<>> >>

\* ------------------------------------------------------------------ C16
\* binding.make of one binding, the default binding of A, called by
\* MaxProcs goroutines at once. Each goroutine goes through the steps of
\* make: the test of b.concrete, the call of invoke, the store of its
\* result into b.concrete and the read of b.concrete it returns. The store
\* of an interface value is two words, the type and the data: a goroutine
\* that reads between them sees a non-nil interface without its data.
Goroutines == 1..MaxProcs

RaceProgram == Program({"f1", "fErr", "fNil"}, {<<>>}, {<<>>}, {}, {})

\* the interface value whose type word is v's and whose data is not
\* stored yet
TypedNil(v) == [id |-> 0, by |-> v.by, args |-> <<>>]

Idle == [pc |-> "check", val |-> Nil, err |-> NoErr, ret |-> Nil]

InitRace ==
    \E r \in RaceProgram.resolvers :
      \E bindType \in {singletonType, delaySingletonType, transientType} :
        /\ bind(Machine(NoBindings, [x \in ResolverIds |-> 0], 1, <<>>),
                r, bindType, <<>>).err = NoErr
        /\ c = bind(Machine(NoBindings, [x \in ResolverIds |-> 0], 1, <<>>),
                    r, bindType, <<>>).m.c
        /\ calls = bind(Machine(NoBindings, [x \in ResolverIds |-> 0], 1,
                                <<>>), r, bindType, <<>>).m.calls
        /\ next = bind(Machine(NoBindings, [x \in ResolverIds |-> 0], 1,
                               <<>>), r, bindType, <<>>).m.next
        /\ world = RaceProgram
        /\ last = [op |-> "make", arg |-> r, name |-> <<>>,
                   bindType |-> bindType, err |-> NoErr, panic |-> NoPanic,
                   out |-> Nil, vals |-> <<>>, log |-> <<>>]
        /\ procs = [g \in Goroutines |-> Idle]

\* the binding the goroutines make
Shared == c["A"][<<>>]

\* a make that holds a lock from its test of b.concrete to its return
MakeCheckLocked(g) ==
    /\ procs[g].pc = "check"
    /\ \A h \in Goroutines \ {g} : procs[h].pc \in {"check", "done"}
    /\ procs' = [procs EXCEPT ![g] =
                    IF Shared.concrete # Nil
                    THEN [@ EXCEPT !.pc = "done", !.ret = Shared.concrete]
                    ELSE [@ EXCEPT !.pc = "invoke"]]
    /\ UNCHANGED <<c, calls, next, last, world>>

\* if b.concrete != nil { return b.concrete, nil }
MakeCheck(g) ==
    /\ procs[g].pc = "check"
    /\ procs' = [procs EXCEPT ![g] =
                    IF Shared.concrete # Nil
                    THEN [@ EXCEPT !.pc = "done", !.ret = Shared.concrete]
                    ELSE [@ EXCEPT !.pc = "invoke"]]
    /\ UNCHANGED <<c, calls, next, last, world>>

\* goroutine g, after invoke returned v
MakeInvoked(g, v) ==
    /\ calls' = v.m.calls
    /\ next' = v.m.next
    /\ last' = [last EXCEPT !.log = @ \o v.m.log]
    /\ procs' = [procs EXCEPT ![g] =
                    IF Shared.bindType = delaySingletonType
                    THEN [@ EXCEPT !.pc = "store", !.val = v.val,
                                   !.err = v.err]
                    ELSE [@ EXCEPT !.pc = "done", !.ret = v.val,
                                   !.err = v.err]]
    /\ UNCHANGED <<c, world>>

\* c.invoke(b.resolver, opt)
MakeInvoke(g) ==
    /\ procs[g].pc = "invoke"
    /\ MakeInvoked(g, invoke(Now, Shared.resolver, <<>>,
                             [kind |-> "make", t |-> "A", key |-> <<>>], 1))

\* the first word of b.concrete = ...: the type of the new value
MakeStoreType(g) ==
    /\ procs[g].pc = "store"
    /\ procs[g].val # Nil
    /\ Shared.concrete = Nil
    /\ c' = [c EXCEPT !["A"][<<>>].concrete = TypedNil(procs[g].val)]
    /\ procs' = [procs EXCEPT ![g].pc = "store data"]
    /\ UNCHANGED <<calls, next, last, world>>

\* b.concrete = ... complete; if err != nil { return nil, err }
MakeStore(g) ==
    /\ procs[g].pc \in {"store", "store data"}
    /\ c' = [c EXCEPT !["A"][<<>>].concrete = procs[g].val]
    /\ procs' = [procs EXCEPT ![g].pc =
                    IF procs[g].err # NoErr THEN "done" ELSE "return"]
    /\ UNCHANGED <<calls, next, last, world>>

\* return b.concrete, nil
MakeReturn(g) ==
    /\ procs[g].pc = "return"
    /\ procs' = [procs EXCEPT ![g] =
                    [@ EXCEPT !.pc = "done", !.ret = Shared.concrete]]
    /\ UNCHANGED <<c, calls, next, last, world>>

NextRace ==
    \E g \in Goroutines :
        \/ MakeCheck(g)
        \/ MakeInvoke(g)
        \/ MakeStoreType(g)
        \/ MakeStore(g)
        \/ MakeReturn(g)

SpecRace == InitRace /\ [][NextRace]_vars

\* C16: nothing in make keeps a second goroutine out while a first one is
\* between its test of the cache and its store: a goroutine at the test
\* can always take it, and one that saw the cache unset can always go on
\* to run the resolver, whatever the others are doing. So two first
\* resolutions of one LazySingleton can both see the cache unset, run the
\* resolver twice and return different instances (C16_Witness).
C16_NothingPrevents ==
    \A g \in Goroutines :
        /\ procs[g].pc = "check" => ENABLED MakeCheck(g)
        /\ procs[g].pc = "invoke" => ENABLED MakeInvoke(g)
        /\ (procs[g].pc = "check" /\ Shared.concrete = Nil
             /\ \E h \in Goroutines \ {g} :
                   procs[h].pc \in {"invoke", "store"})
            => ENABLED (MakeCheck(g) /\ procs'[g].pc = "invoke")

\* two goroutines resolved the same LazySingleton for the first time: the
\* resolver ran twice and they returned different instances
C16_Witness ==
    /\ Shared.bindType = delaySingletonType
    /\ procs[1].pc = "done" /\ procs[2].pc = "done"
    /\ procs[1].ret # Nil /\ procs[2].ret # Nil
    /\ procs[1].ret.id # 0 /\ procs[2].ret.id # 0
    /\ procs[1].ret # procs[2].ret
    /\ Len(last.log) >= 2
    /\ last.log[1].r = last.log[2].r

\* ------------------------------------------------------------------ C17
\* the parameter types of the resolver of binding b
Requires(b) == { Resolvers[b[3].resolver].ins[i] :
                   i \in 1..Len(Resolvers[b[3].resolver].ins) }

\* the registry has two bindings whose resolvers require each other's type
HasCycle(cc) ==
    \E x, y \in Bindings(cc) : y[1] \in Requires(x) /\ x[1] \in Requires(y)

\* the default bindings of A and B are not cached and their resolvers
\* require each other
DefaultCycle ==
    /\ DefaultBound(c, "A") /\ DefaultBound(c, "B")
    /\ c["A"][<<>>].concrete = Nil /\ c["B"][<<>>].concrete = Nil
    /\ "B" \in Requires(<<"A", <<>>, c["A"][<<>>]>>)
    /\ "A" \in Requires(<<"B", <<>>, c["B"][<<>>]>>)

\* C17: a resolution runs out of stack only when the registry has a
\* cycle, so it terminates on every acyclic graph; Register of a
\* LazySingleton or Transient binding never looks at the dependencies, so
\* it accepts a cycle without an error; and once A and B require each
\* other every Resolve or Call of A or B recurses until the stack is
\* exhausted: it neither completes nor returns an error.
C17_Cycles ==
    /\ last.panic = "stack overflow" => HasCycle(c)
    /\ (IsRegister /\ last.bindType # singletonType /\ ValidShape(last.arg))
         => /\ Returned
            /\ last.err.kind \in {NoErr.kind, "already exists"}
    /\ (/\ DefaultCycle
        /\ \/ last.op = "Resolve" /\ Targets[last.arg].kind = "ptr"
           \/ last.op = "Call" /\ last.arg = "gB"
           \/ last.op = "Fill" /\ last.arg = "sAB")
         => /\ last.panic = "stack overflow"
            /\ last.err = NoErr
            /\ last.out = Nil
            /\ last.log = <<>>

\* a Resolve of A on a registry where A requires B and B requires A
C17_Witness ==
    /\ last.op = "Resolve" /\ last.arg = "pA"
    /\ DefaultCycle
    /\ last.panic = "stack overflow"

\* ------------------------------------------------------------------ C18
\* the resolver of binding (t, key) produced instance v in the last call
MadeNow(v, t, key) ==
    \E e \in 1..Len(last.log) :
        /\ last.log[e].val = v.id
        /\ last.log[e].via = [kind |-> "make", t |-> t, key |-> key]

\* every argument the resolver r received for v comes from the binding
\* that the candidates of name select for the parameter's type
ArgsUnder(v, r, name) ==
    \A i \in 1..Len(v.args) :
        /\ Registered(c, Resolvers[r].ins[i], toNames(name)) # {}
        /\ FromBinding(v.args[i], Resolvers[r].ins[i],
               toNames(name)[Least(Registered(c, Resolvers[r].ins[i],
                                              toNames(name)))])

\* the first parameter of resolver r has bindings, none of them under a
\* candidate of name
FirstParamUnmatched(r, name) ==
    /\ Len(Resolvers[r].ins) > 0
    /\ Resolvers[r].ins[1] \in DOMAIN c
    /\ Registered(c, Resolvers[r].ins[1], toNames(name)) = {}

FailsFor(t) ==
    /\ Returned
    /\ last.err.kind = "no binding found"
    /\ last.err.t = t

\* C18 (NamedResolve): the resolver of the binding that NamedResolve(q)
\* makes gets its parameters from the candidates of q, and the call fails
\* when a parameter is registered under no candidate of q.
C18_NamedResolve ==
    (last.op = "NamedResolve" /\ ResolveFound)
        => /\ (ResolvedBinding.concrete = Nil
                /\ FirstParamUnmatched(ResolvedBinding.resolver, last.name))
               => FailsFor(Resolvers[ResolvedBinding.resolver].ins[1])
           /\ (Succeeded
                /\ MadeNow(last.out, ResolvedElem, ResolvedLookup.key))
               => ArgsUnder(last.out, ResolvedBinding.resolver, last.name)

\* C18 (eager NamedSingleton): the same at registration
C18_NamedSingleton ==
    (/\ last.op = "NamedSingleton" /\ last.bindType = singletonType
     /\ ValidShape(last.arg))
        => /\ FirstParamUnmatched(last.arg, last.name)
               => FailsFor(Resolvers[last.arg].ins[1])
           /\ (Succeeded /\ Len(Resolvers[last.arg].ins) > 0)
               => ArgsUnder(c[Resolvers[last.arg].outs[1]][last.name].concrete,
                            last.arg, last.name)

\* C18 (Fill): the field "a" of sBnA is annotated "name", so its binding
\* is B under "a"; the parameters of that binding's resolver are looked up
\* under the default qualifier all the same.
C18_Fill ==
    (/\ last.op = "Fill" /\ last.arg = "sBnA"
     /\ "B" \in DOMAIN c /\ <<"a">> \in DOMAIN c["B"])
        => /\ (c["B"][<<"a">>].concrete = Nil
                /\ FirstParamUnmatched(c["B"][<<"a">>].resolver, <<>>))
               => last.vals[1] = Nil
           /\ (last.vals[1] # Nil /\ MadeNow(last.vals[1], "B", <<"a">>))
               => ArgsUnder(last.vals[1], c["B"][<<"a">>].resolver, <<>>)

\* C18: the three parts together
C18_QualifierPropagates ==
    C18_NamedResolve /\ C18_NamedSingleton /\ C18_Fill

\* NamedResolve("a") of B, bound under "a", fails for A, which is bound
\* under the default qualifier only
C18_Witness ==
    /\ last.op = "NamedResolve" /\ last.arg = "pB" /\ last.name = <<"a">>
    /\ ResolveFound /\ ResolvedLookup.key = <<"a">>
    /\ "A" \in DOMAIN c /\ DOMAIN c["A"] = { <<>> }
    /\ FailsFor("A")

\* ------------------------------------------------------------------ C19
\* C19: Resolve, NamedResolve, Call and Fill add, remove and replace no
\* registry entry: the (TypeKey, qualifier) pairs and every binding's
\* resolver and lifecycle stay as they were, and the only thing they
\* change is the cached instance of a LazySingleton binding that was
\* unset before the call.
C19_FrameStep ==
    last'.op \in {"Resolve", "NamedResolve", "Call", "Fill"}
        => /\ DOMAIN c' = DOMAIN c
           /\ \A t \in DOMAIN c :
                 /\ DOMAIN c'[t] = DOMAIN c[t]
                 /\ \A k \in DOMAIN c[t] :
                       /\ c'[t][k].resolver = c[t][k].resolver
                       /\ c'[t][k].bindType = c[t][k].bindType
                       /\ c'[t][k].concrete # c[t][k].concrete
                            => /\ c[t][k].bindType = delaySingletonType
                               /\ c[t][k].concrete = Nil

C19_Frame == [][C19_FrameStep]_vars

\* a Resolve that ran the resolver of a LazySingleton binding and left
\* its instance in the binding's cache
C19_Witness ==
    /\ last.op = "Resolve" /\ ResolveFound /\ Succeeded
    /\ ResolvedBinding.bindType = delaySingletonType
    /\ MadeNow(last.out, ResolvedElem, ResolvedLookup.key)
    /\ ResolvedBinding.concrete = last.out

\* ------------------------------------------------------------------ C20
\* a non-empty name that is not "type", has no comma and no whitespace
\* around it
Ordinary(name) ==
    /\ name # <<>>
    /\ name # TYPE
    /\ \A i \in 1..Len(name) : name[i] # ","
    /\ name[1] \notin Space /\ name[Len(name)] \notin Space

\* C20 (Register): a successful Register leaves its binding under the
\* name it was given, verbatim.
C20_StoredVerbatim ==
    (IsRegister /\ Succeeded)
        => /\ last.name \in DOMAIN c[Resolvers[last.arg].outs[1]]
           /\ c[Resolvers[last.arg].outs[1]][last.name].resolver = last.arg

\* C20 (toNames): an ordinary name expands to itself alone; the expansion
\* of any other non-empty name does not contain the name.
C20_Expanded ==
    \A name \in (world.names \cup world.resolveNames) \ {<<>>} :
        /\ Ordinary(name) => toNames(name) = << name >>
        /\ ~Ordinary(name)
             => \A i \in 1..Len(toNames(name)) : toNames(name)[i] # name

\* C20 (NamedResolve): with a binding registered under the very name that
\* NamedResolve is called with, the call returns that binding's instance
\* when the name is ordinary and never otherwise; NamedResolve("type")
\* returns the default binding's instance.
C20_NamedResolve ==
    (/\ last.op = "NamedResolve" /\ Targets[last.arg].kind = "ptr"
     /\ ResolvedElem \in DOMAIN c
     /\ last.name \in DOMAIN c[ResolvedElem])
        => /\ Ordinary(last.name)
               => /\ ResolvedLookup.exist
                  /\ ResolvedLookup.key = last.name
                  /\ Succeeded
                       => FromBinding(last.out, ResolvedElem, last.name)
           /\ ~Ordinary(last.name)
               => /\ ResolvedLookup.exist => ResolvedLookup.key # last.name
                  /\ Succeeded
                       => ~FromBinding(last.out, ResolvedElem, last.name)
           /\ (last.name = TYPE /\ <<>> \in DOMAIN c[ResolvedElem]
                /\ Succeeded)
               => FromBinding(last.out, ResolvedElem, <<>>)

\* C20: the three parts together
C20_VerbatimAndExpanded ==
    C20_StoredVerbatim /\ C20_Expanded /\ C20_NamedResolve

\* NamedResolve("type") with bindings under "type" and under the default
\* qualifier returns the default binding's instance
C20_Witness ==
    /\ last.op = "NamedResolve" /\ last.arg = "pA" /\ last.name = TYPE
    /\ "A" \in DOMAIN c /\ DOMAIN c["A"] = { <<>>, TYPE }
    /\ Succeeded
    /\ FromBinding(last.out, "A", <<>>)
    /\ ~FromBinding(last.out, "A", TYPE)

====
